---- MODULE Spec2Model ----
(***************************************************************************)
(* Model of the BAC estimation engine of KSLepley/bacLevelApp:             *)
(*   src/bac_calculator.py      BACCalculator                              *)
(*   src/real_time_monitor.py   SensorSimulator, RealTimeBACMonitor        *)
(*                                                                         *)
(* Units.  The code computes with floats; the model uses scaled integers:  *)
(*   BAC                     millionths        (0.05      -> 50000)        *)
(*   time                    seconds           (0.5 hours -> 1800)         *)
(*   weight_lbs              tenths of a pound (157.1     -> 1571)         *)
(*   volume_oz               tenths of an oz   (1.5 oz    -> 15)           *)
(*   alcohol_percent         percent           (5.0       -> 5)            *)
(*   alcohol mass            milligrams                                    *)
(*   heart rate              hundredths of BPM (70        -> 7000)         *)
(*   skin conductance        thousandths       (5.0       -> 5000)         *)
(*   temperature             thousandths of F  (98.6      -> 98600)        *)
(* Divisions round down, so a value can differ from the float by a few     *)
(* millionths.  Python None is <<>> for a timestamp (a set timestamp t is  *)
(* <<t>>), "None" for an alert level and NoArg for an optional argument.   *)
(*                                                                         *)
(* Threads.  The caller is one thread; each start_monitoring spawns one    *)
(* background thread running _monitor_loop.  A caller operation is one     *)
(* atomic step, except stop_monitoring, which blocks in join().  A         *)
(* background tick is a sequence of steps, one per statement of the loop   *)
(* body, and _update_bac is split into the step that reads the session     *)
(* state and the step that stores current_bac: the code takes no lock, so  *)
(* caller steps interleave between them.  _check_alerts is one step.       *)
(*                                                                         *)
(* StepSpec refines this: add_drink, reset_session, _update_bac,           *)
(* update_sensors and _check_alerts advance one statement at a time, so    *)
(* that the states between two assignments of one operation are visible    *)
(* to the other thread.                                                    *)
(***************************************************************************)
EXTENDS Integers, Sequences, FiniteSets, TLC

\* ------------------------------------------------------------------ bounds
MaxTime == 10
MaxOps == 4
MaxStarts == 2
MaxDrinks == 2

\* ------------------------------------------------------- program constants
male_widmark_factor == 68
female_widmark_factor == 55
metabolism_rate == 15000
PeakSecs == 1800
SecsPerHour == 3600
WarningThreshold == 50000
DangerThreshold == 80000
CriticalThreshold == 150000
DefaultCooldown == 30
TickSleepSecs == 5
ErrorSleepSecs == 1
ShiftSecs == 1800
baseline_heart_rate == 7000
baseline_skin_conductance == 5000
baseline_temperature == 98600
NoArg == -1

Max(a, b) == IF a >= b THEN a ELSE b
Min(a, b) == IF a <= b THEN a ELSE b

\* --------------------------------------------------------- BACCalculator
drink_database ==
    [beer     |-> [alcohol_percent |-> 5,  volume_oz |-> 120],
     wine     |-> [alcohol_percent |-> 12, volume_oz |-> 50],
     liquor   |-> [alcohol_percent |-> 40, volume_oz |-> 15],
     cocktail |-> [alcohol_percent |-> 15, volume_oz |-> 80]]

\* Python truth of an optional numeric argument: None and 0 are false.
Truthy(x) == x # NoArg /\ x # 0


\* Milligrams of ethanol in one drink: oz * 29.5735 * (percent/100) * 0.789 g.
alcohol_mg(drink) == (drink.volume_oz * drink.alcohol_percent * 233335) \div 10000

RECURSIVE total_alcohol_mg(_)
total_alcohol_mg(ds) ==
    IF ds = <<>> THEN 0 ELSE alcohol_mg(Head(ds)) + total_alcohol_mg(Tail(ds))

\* Variant of line 53 with the two factors exchanged.  C22 does not hold of it.
widmark_factor_swapped(gender) ==
    IF gender = "male" THEN female_widmark_factor ELSE male_widmark_factor

widmark_factor(gender) ==
    IF gender = "male" THEN male_widmark_factor ELSE female_widmark_factor

weight_grams(weight_lbs) == (weight_lbs * 453592) \div 10000

\* The division of line 59 raises ZeroDivisionError for a zero weight.
WidmarkRaises(weight_lbs) == weight_lbs = 0

peak_bac(weight_lbs, gender, ds) ==
    (total_alcohol_mg(ds) * 10000)
        \div ((widmark_factor(gender) * weight_grams(weight_lbs)) \div 1000)

\* peak_bac * (hours_since_first_drink / 0.5) of line 66: peak * secs / 1800,
\* computed by quotient and remainder so that a large peak stays in range.
ramp(peak, secs) ==
    (peak \div PeakSecs) * secs + ((peak % PeakSecs) * secs) \div PeakSecs

\* Variant of calculate_bac_widmark without the max(0, bac) of line 73.
calculate_bac_widmark_unclamped(weight_lbs, gender, ds, secs) ==
    LET peak == peak_bac(weight_lbs, gender, ds)
    IN IF secs <= PeakSecs
       THEN (peak * secs) \div PeakSecs
       ELSE peak - (metabolism_rate * (secs - PeakSecs)) \div SecsPerHour

\* Variant of calculate_bac_widmark that eliminates from the first drink on,
\* as the formula of the docstring reads (peak - rate * t), not from the peak
\* at 0.5 h on.  C25 does not hold of it.
calculate_bac_widmark_from_first(weight_lbs, gender, ds, secs) ==
    LET peak == peak_bac(weight_lbs, gender, ds)
        bac  == IF secs <= PeakSecs
                THEN (peak * secs) \div PeakSecs
                ELSE peak - (metabolism_rate * secs) \div SecsPerHour
    IN Max(0, bac)

\* Variant of calculate_bac_widmark without the absorption ramp of lines
\* 64-66: the peak is reached at once.  C21 does not hold of it.
calculate_bac_widmark_no_ramp(weight_lbs, gender, ds, secs) ==
    LET peak == peak_bac(weight_lbs, gender, ds)
        bac  == IF secs <= PeakSecs
                THEN peak
                ELSE peak - (metabolism_rate * (secs - PeakSecs)) \div SecsPerHour
    IN Max(0, bac)

\* Variant of calculate_bac_widmark whose max(0, bac) covers the elimination
\* branch only: the ramp of line 66 is returned as computed.
calculate_bac_widmark_ramp_unclamped(weight_lbs, gender, ds, secs) ==
    LET peak == peak_bac(weight_lbs, gender, ds)
    IN IF secs <= PeakSecs
       THEN (peak * secs) \div PeakSecs
       ELSE Max(0, peak - (metabolism_rate * (secs - PeakSecs)) \div SecsPerHour)

\* calculate_bac_widmark, with hours_since_first_drink given in seconds.
calculate_bac_widmark(weight_lbs, gender, ds, secs) ==
    LET peak == peak_bac(weight_lbs, gender, ds)
        bac  == IF secs <= PeakSecs
                THEN ramp(peak, secs)
                ELSE peak - (metabolism_rate * (secs - PeakSecs)) \div SecsPerHour
    IN Max(0, bac)

\* exp(-metabolism_rate * hours) in millionths: 1 - x + x^2/2, x in millionths.
decay_factor(secs) ==
    LET x == (metabolism_rate * secs) \div SecsPerHour
    IN 1000000 - x + (x * x) \div 2000000

estimate_bac_from_sensors(hr, sc, temp, secs_since_drink) ==
    LET hr_dev   == hr - baseline_heart_rate
        sc_dev   == sc - baseline_skin_conductance
        temp_dev == temp - baseline_temperature
        est == (IF hr_dev * 10 > baseline_heart_rate
                THEN (20000 * hr_dev) \div baseline_heart_rate ELSE 0)
             + (IF sc_dev * 100 > 15 * baseline_skin_conductance
                THEN (15000 * sc_dev) \div baseline_skin_conductance ELSE 0)
             + (IF temp_dev * 100 > 2 * baseline_temperature
                THEN (10000 * temp_dev) \div baseline_temperature ELSE 0)
    IN Max(0, est - (est * (1000000 - decay_factor(secs_since_drink))) \div 1000000)

\* Variant of get_bac_effects with <= for < in the tests of lines 112-140: a
\* value on a boundary falls into the lower range.  C24 does not hold of it.
get_bac_effects_closed(bac) ==
    IF bac <= 20000 THEN "Sober"
    ELSE IF bac <= 50000 THEN "Mild Impairment"
    ELSE IF bac <= 80000 THEN "Moderate Impairment"
    ELSE IF bac <= 150000 THEN "High Impairment"
    ELSE "Severe Impairment"

get_bac_effects(bac) ==
    IF bac < 20000 THEN "Sober"
    ELSE IF bac < 50000 THEN "Mild Impairment"
    ELSE IF bac < 80000 THEN "Moderate Impairment"
    ELSE IF bac < 150000 THEN "High Impairment"
    ELSE "Severe Impairment"

\* calculate_sober_time, in seconds.
calculate_sober_time(bac) ==
    IF bac <= 0 THEN 0
    ELSE (bac \div metabolism_rate) * SecsPerHour
         + ((bac % metabolism_rate) * SecsPerHour) \div metabolism_rate


\* ------------------------------------------------------------ input sets
\* Profiles passed to RealTimeBACMonitor(weight_lbs, gender); __init__ stores
\* whatever it is given.
Profiles == { <<1571, "female">>, <<0, "male">> }

\* Arguments of add_drink(drink_type, volume_oz, alcohol_percent).
DrinkInputs == { <<"beer", NoArg, NoArg>>, <<"cocktail", NoArg, NoArg>> }

\* Arguments of add_drink for the resolution of drink types: the four known
\* types and an unknown one, each with no override, with a zero and with a
\* positive volume (2 oz) and percentage (7 %).
AllDrinkInputs ==
    {"beer", "wine", "liquor", "cocktail", "sake"} \X {NoArg, 0, 20} \X {NoArg, 0, 7}

\* Inputs of calculate_bac_widmark called on its own: profiles of positive
\* weight, drink lists resolved from these add_drink arguments, and
\* hours_since_first_drink in seconds, negative values included.
CalcProfiles ==
    { <<1000, "female">>, <<1330, "female">>, <<1600, "male">>, <<2500, "male">> }

CalcDrinkInputs ==
    { <<"beer", NoArg, NoArg>>, <<"liquor", NoArg, NoArg>>,
      <<"cocktail", NoArg, NoArg>>, <<"sake", 20, 7>> }

CalcDrinkLists == UNION { [1..n -> CalcDrinkInputs] : n \in 0..MaxDrinks }

ElapsedInputs == { -3600, -1800, -1, 0, 1, 900, 1800, 1801, 3600, 36000 }

\* Arguments of get_bac_effects(bac), in millionths: the values on and next to
\* each boundary, a negative value, 0 and a large one.
BacInputs ==
    { -1, 0, 19999, 20000, 49999, 50000, 79999, 80000, 149999, 150000, 500000 }

\* Arguments of set_alert_cooldown(seconds).
Cooldowns == { 0, 5 }

\* (heart rate, skin conductance, temperature) draws of random.uniform in
\* update_sensors: the two extremes of each range.
Noises == { <<-200, -500, -500>>, <<200, 500, 500>> }

\* Arguments of the time shift, in seconds: 30 minutes forward, and backward.
ShiftInputs == { ShiftSecs, -ShiftSecs }

\* Arguments of get_recent_data(minutes).
WindowInputs == { 0, 30 }

\* Seconds the caller lets pass between two calls while no loop is running.
WaitInputs == { 1793, 1795 }

\* A profile for which one cocktail keeps the BAC in the warning level over
\* several ticks (120 lb, female).
AlertProfiles == { <<1200, "female">> }

\* A profile light enough for one cocktail to give a BAC above 1.45, where
\* the unclamped temperature leaves its range (5 lb, female).
StepProfiles == { <<50, "female">> }

Threads == 1 .. MaxStarts

\* ----------------------------------------------------------------- state
VARIABLES
    weight_lbs, gender,                      \* user profile
    drinks, first_drink_time, last_drink_time,
    current_bac, bac_history, sensor_history,
    is_monitoring, monitor_thread, data_queue,
    last_alert_level, last_alert_time, alert_cooldown,
    sensors,                                 \* SensorSimulator current_* values
    now,                                     \* datetime.now(), seconds
    pc, pending, data_point,                 \* per background thread
    caller,                                  \* "idle", or "joining" inside stop_monitoring
    stale, sinceReset, lastEval, tickChanged, disturbed, \* history variables
    used,                                    \* how often each bounded input was used
    database,                                \* BACCalculator.drink_database
    returned,                                \* what the last read operation returned
    frame                                    \* local variables of each thread's tick

profile == <<weight_lbs, gender>>
session == <<drinks, first_drink_time, last_drink_time, current_bac,
             bac_history, sensor_history>>
control == <<is_monitoring, monitor_thread, caller>>
alertst == <<last_alert_level, last_alert_time, alert_cooldown>>
locals  == <<pc, pending, data_point>>
ghosts  == <<stale, sinceReset, lastEval, tickChanged, disturbed>>
vars == <<profile, session, control, alertst, locals, ghosts,
          sensors, now, data_queue, used, database, returned, frame>>

\* BACCalculator.add_drink: the drink record for a type and optional overrides,
\* resolved against the database as it is now.
calc_add_drink(drink_type, volume_oz, alcohol_percent) ==
    IF drink_type \in DOMAIN database
    THEN [alcohol_percent |-> IF Truthy(alcohol_percent) THEN alcohol_percent
                              ELSE database[drink_type].alcohol_percent,
          volume_oz       |-> IF Truthy(volume_oz) THEN volume_oz
                              ELSE database[drink_type].volume_oz]
    ELSE [alcohol_percent |-> IF Truthy(alcohol_percent) THEN alcohol_percent ELSE 5,
          volume_oz       |-> IF Truthy(volume_oz) THEN volume_oz ELSE 120]

\* Variant of BACCalculator.add_drink without the .copy() of line 163: the
\* overrides are written into the database entry itself.
database_after_add_no_copy(drink_type, volume_oz, alcohol_percent) ==
    IF drink_type \in DOMAIN database
    THEN [database EXCEPT ![drink_type] =
              calc_add_drink(drink_type, volume_oz, alcohol_percent)]
    ELSE database

\* The database after BACCalculator.add_drink: the entry is copied before the
\* overrides are applied (line 163), so the database is as it was.
database_after_add(drink_type, volume_oz, alcohol_percent) == database

NoEval == [prev |-> "None", cur |-> "None", fired |-> FALSE,
           clean |-> TRUE, prevClean |-> TRUE]

\* The local variables of _update_bac and _check_alerts before they are
\* assigned: hours_since_first, calculated_bac, the branch _update_bac took,
\* current_alert_level and current_time.
NoFrame == [hours_since_first |-> 0, calculated_bac |-> 0, branch |-> "none",
            current_alert_level |-> "None", current_time |-> 0]

\* Caller operations and environment faults are bounded together.
Budget == used.ops < MaxOps

\* The state __init__ leaves, for a profile of the given set.
SessionInit(profiles) ==
    /\ \E p \in profiles : weight_lbs = p[1] /\ gender = p[2]
    /\ drinks = <<>>
    /\ first_drink_time = <<>>
    /\ last_drink_time = <<>>
    /\ current_bac = 0
    /\ bac_history = <<>>
    /\ sensor_history = <<>>
    /\ is_monitoring = FALSE
    /\ monitor_thread = 0
    /\ data_queue = 0
    /\ last_alert_level = "None"
    /\ last_alert_time = <<>>
    /\ alert_cooldown = DefaultCooldown
    /\ sensors = [heart_rate |-> baseline_heart_rate,
                  skin_conductance |-> baseline_skin_conductance,
                  temperature |-> baseline_temperature]
    /\ now = 0
    /\ pc = [t \in Threads |-> "unborn"]
    /\ pending = [t \in Threads |-> 0]
    /\ data_point = [t \in Threads |-> <<>>]
    /\ caller = "idle"
    /\ stale = [t \in Threads |-> FALSE]
    /\ sinceReset = FALSE
    /\ lastEval = NoEval
    /\ tickChanged = [t \in Threads |-> FALSE]
    /\ disturbed = [t \in Threads |-> FALSE]
    /\ used = [ops |-> 0, starts |-> 0]
    /\ database = drink_database
    /\ returned = <<>>
    /\ frame = [t \in Threads |-> NoFrame]

Init == SessionInit(Profiles)

\* ------------------------------------------------------------ _update_bac
\* Whether _update_bac raises for a drink log: calculate_bac_widmark divides
\* by the weight.
UpdateRaises(ds) == ds # <<>> /\ WidmarkRaises(weight_lbs)

\* Variant of line 173 with the two weights exchanged.  C26 does not hold of
\* it.
blend_weights_exchanged(calculated_bac, sensor_bac) ==
    (3 * calculated_bac + 7 * sensor_bac) \div 10

\* Line 173: 0.7 * calculated_bac + 0.3 * sensor_bac.
blend(calculated_bac, sensor_bac) == (7 * calculated_bac + 3 * sensor_bac) \div 10

\* Variant of _update_bac whose empty-log branch returns without the
\* assignment of line 145: current_bac keeps its value.  C23 does not hold
\* of it.
UpdateValue_empty_keeps(ds, first, last, clock) ==
    IF ds = <<>> THEN current_bac
    ELSE LET hours_since_first == IF first # <<>> THEN clock - first[1] ELSE 0
             calculated_bac ==
                 calculate_bac_widmark(weight_lbs, gender, ds, hours_since_first)
         IN IF last # <<>>
            THEN (7 * calculated_bac
                  + 3 * estimate_bac_from_sensors(sensors.heart_rate,
                            sensors.skin_conductance, sensors.temperature,
                            clock - last[1])) \div 10
            ELSE calculated_bac

\* The value _update_bac computes for current_bac from a drink log, the first
\* and last drink times and the clock.
UpdateValue(ds, first, last, clock) ==
    IF ds = <<>> THEN 0
    ELSE LET hours_since_first == IF first # <<>> THEN clock - first[1] ELSE 0
             calculated_bac ==
                 calculate_bac_widmark(weight_lbs, gender, ds, hours_since_first)
         IN IF last # <<>>
            THEN blend(calculated_bac,
                       estimate_bac_from_sensors(sensors.heart_rate,
                           sensors.skin_conductance, sensors.temperature,
                           clock - last[1]))
            ELSE calculated_bac

\* A caller operation that changes the drink log makes the value a background
\* thread has computed but not yet stored a stale one.
MarkStale == [t \in Threads |-> stale[t] \/ pc[t] = "write"]

\* A caller operation that writes session state disturbs the ticks in progress.
MarkDisturbed == [t \in Threads |-> disturbed[t] \/ pc[t] \notin {"unborn", "loop", "dead"}]

\* ------------------------------------------------------ caller operations
\* Variant of start_monitoring without the guard of line 92: a second call
\* spawns a second loop.  C5 does not hold of it.
start_monitoring_unguarded ==
    /\ caller = "idle"
    /\ Budget
    /\ used.starts < MaxStarts
    /\ is_monitoring' = TRUE
    /\ monitor_thread' = used.starts + 1
    /\ pc' = [pc EXCEPT ![used.starts + 1] = "loop"]
    /\ used' = [used EXCEPT !.starts = @ + 1, !.ops = @ + 1]
    /\ UNCHANGED <<profile, frame, database, returned, session, alertst, ghosts, sensors, now, data_queue,
                   caller, pending, data_point>>

start_monitoring ==
    /\ caller = "idle"
    /\ ~is_monitoring
    /\ Budget
    /\ used.starts < MaxStarts
    /\ is_monitoring' = TRUE
    /\ monitor_thread' = used.starts + 1
    /\ pc' = [pc EXCEPT ![used.starts + 1] = "loop"]
    /\ used' = [used EXCEPT !.starts = @ + 1, !.ops = @ + 1]
    /\ UNCHANGED <<profile, frame, database, returned, session, alertst, ghosts, sensors, now, data_queue,
                   caller, pending, data_point>>

\* start_monitoring while already monitoring: the guard of line 92 is false.
start_monitoring_again ==
    /\ caller = "idle"
    /\ is_monitoring
    /\ UNCHANGED vars

\* stop_monitoring up to the join() of line 103.
stop_monitoring_begin ==
    /\ caller = "idle"
    /\ Budget
    /\ used' = [used EXCEPT !.ops = @ + 1]
    /\ is_monitoring' = FALSE
    /\ caller' = IF monitor_thread # 0 THEN "joining" ELSE "idle"
    /\ UNCHANGED <<profile, frame, database, returned, session, alertst, locals, ghosts, sensors, now,
                   data_queue, monitor_thread>>

\* Variant of stop_monitoring that does not wait for the thread (no join).
\* C4 does not hold of it.
stop_monitoring_no_join ==
    /\ caller = "joining"
    /\ caller' = "idle"
    /\ UNCHANGED <<profile, frame, database, returned, session, alertst, locals, ghosts, sensors, now,
                   data_queue, used, is_monitoring, monitor_thread>>

\* join() returns once the thread has ended.
stop_monitoring_join ==
    /\ caller = "joining"
    /\ pc[monitor_thread] = "dead"
    /\ caller' = "idle"
    /\ UNCHANGED <<profile, frame, database, returned, session, alertst, locals, ghosts, sensors, now,
                   data_queue, used, is_monitoring, monitor_thread>>

\* Variant of add_drink without the test of line 229: every drink sets
\* first_drink_time.  C12 does not hold of it.
add_drink_resets_first(drink_type, volume_oz, alcohol_percent) ==
    LET drink_info == calc_add_drink(drink_type, volume_oz, alcohol_percent)
                          @@ [timestamp |-> now]
        ds    == Append(drinks, drink_info)
        first == <<now>>
    IN /\ caller = "idle"
       /\ Budget
       /\ Len(drinks) < MaxDrinks
       /\ used' = [used EXCEPT !.ops = @ + 1]
       /\ drinks' = ds
       /\ first_drink_time' = first
       /\ last_drink_time' = <<now>>
       /\ current_bac' = IF UpdateRaises(ds) THEN current_bac
                         ELSE UpdateValue(ds, first, <<now>>, now)
       /\ stale' = MarkStale
       /\ sinceReset' = FALSE
       /\ disturbed' = MarkDisturbed
       /\ database' = database_after_add(drink_type, volume_oz, alcohol_percent)
       /\ UNCHANGED <<profile, frame, returned, bac_history, sensor_history, control, alertst,
                      locals, lastEval, tickChanged, sensors, now, data_queue>>

\* Variant of add_drink that runs the alert decision itself after the
\* recomputation: a drink that lifts the BAC into a level records the alert
\* at once.  C28 does not hold of it.
add_drink_checks_alerts(drink_type, volume_oz, alcohol_percent) ==
    LET drink_info == calc_add_drink(drink_type, volume_oz, alcohol_percent)
                          @@ [timestamp |-> now]
        ds    == Append(drinks, drink_info)
        first == IF first_drink_time = <<>> THEN <<now>> ELSE first_drink_time
        bac   == IF UpdateRaises(ds) THEN current_bac
                 ELSE UpdateValue(ds, first, <<now>>, now)
        level == IF bac >= CriticalThreshold THEN "critical"
                 ELSE IF bac >= DangerThreshold THEN "danger"
                 ELSE IF bac >= WarningThreshold THEN "warning"
                 ELSE "None"
    IN /\ caller = "idle"
       /\ Budget
       /\ Len(drinks) < MaxDrinks
       /\ used' = [used EXCEPT !.ops = @ + 1]
       /\ drinks' = ds
       /\ first_drink_time' = first
       /\ last_drink_time' = <<now>>
       /\ current_bac' = bac
       /\ IF level # "None" /\ level # last_alert_level
          THEN last_alert_level' = level /\ last_alert_time' = <<now>>
          ELSE UNCHANGED <<last_alert_level, last_alert_time>>
       /\ stale' = MarkStale
       /\ sinceReset' = FALSE
       /\ disturbed' = MarkDisturbed
       /\ database' = database_after_add(drink_type, volume_oz, alcohol_percent)
       /\ UNCHANGED <<profile, frame, returned, bac_history, sensor_history, control,
                      alert_cooldown, locals, lastEval, tickChanged, sensors, now,
                      data_queue>>

add_drink(drink_type, volume_oz, alcohol_percent) ==
    LET drink_info == calc_add_drink(drink_type, volume_oz, alcohol_percent)
                          @@ [timestamp |-> now]
        ds    == Append(drinks, drink_info)
        first == IF first_drink_time = <<>> THEN <<now>> ELSE first_drink_time
    IN /\ caller = "idle"
       /\ Budget
       /\ Len(drinks) < MaxDrinks
       /\ used' = [used EXCEPT !.ops = @ + 1]
       /\ drinks' = ds
       /\ first_drink_time' = first
       /\ last_drink_time' = <<now>>
       /\ current_bac' = IF UpdateRaises(ds) THEN current_bac
                         ELSE UpdateValue(ds, first, <<now>>, now)
       /\ stale' = MarkStale
       /\ sinceReset' = FALSE
       /\ disturbed' = MarkDisturbed
       /\ database' = database_after_add(drink_type, volume_oz, alcohol_percent)
       /\ UNCHANGED <<profile, frame, returned, bac_history, sensor_history, control, alertst,
                      locals, lastEval, tickChanged, sensors, now, data_queue>>

\* The time shift of the demos and tests: first_drink_time is moved back by
\* the given time (30 minutes in the tests; improved_demo.py takes any integer
\* from the user, a negative one included) and _update_bac is called.
time_shift(secs) ==
    LET first == <<first_drink_time[1] - secs>>
    IN /\ caller = "idle"
       /\ first_drink_time # <<>>
       /\ Budget
       /\ first_drink_time' = first
       /\ current_bac' = IF UpdateRaises(drinks) THEN current_bac
                         ELSE UpdateValue(drinks, first, last_drink_time, now)
       /\ used' = [used EXCEPT !.ops = @ + 1]
       /\ disturbed' = MarkDisturbed
       /\ UNCHANGED <<profile, frame, database, returned, drinks, last_drink_time, bac_history, sensor_history,
                      control, alertst, locals, stale, sinceReset, lastEval, tickChanged,
                      sensors, now, data_queue>>

\* Variant of reset_session that keeps the alert state (lines 272-273 left
\* out).  C9 does not hold of it.
reset_session_keeps_alerts ==
    /\ caller = "idle"
    /\ Budget
    /\ drinks' = <<>>
    /\ first_drink_time' = <<>>
    /\ last_drink_time' = <<>>
    /\ current_bac' = 0
    /\ bac_history' = <<>>
    /\ sensor_history' = <<>>
    /\ stale' = MarkStale
    /\ sinceReset' = TRUE
    /\ used' = [used EXCEPT !.ops = @ + 1]
    /\ disturbed' = MarkDisturbed
    /\ UNCHANGED <<profile, frame, database, returned, control, alertst, locals, lastEval,
                   tickChanged, sensors, now, data_queue>>

\* Variant of reset_session that also clears the running flag.  C10 does not
\* hold of it.
reset_session_stops ==
    /\ caller = "idle"
    /\ Budget
    /\ drinks' = <<>>
    /\ first_drink_time' = <<>>
    /\ last_drink_time' = <<>>
    /\ current_bac' = 0
    /\ bac_history' = <<>>
    /\ sensor_history' = <<>>
    /\ last_alert_level' = "None"
    /\ last_alert_time' = <<>>
    /\ is_monitoring' = FALSE
    /\ stale' = MarkStale
    /\ sinceReset' = TRUE
    /\ used' = [used EXCEPT !.ops = @ + 1]
    /\ disturbed' = MarkDisturbed
    /\ UNCHANGED <<profile, frame, database, returned, monitor_thread, caller, alert_cooldown, locals, lastEval,
                   tickChanged, sensors, now, data_queue>>

reset_session ==
    /\ caller = "idle"
    /\ Budget
    /\ drinks' = <<>>
    /\ first_drink_time' = <<>>
    /\ last_drink_time' = <<>>
    /\ current_bac' = 0
    /\ bac_history' = <<>>
    /\ sensor_history' = <<>>
    /\ last_alert_level' = "None"
    /\ last_alert_time' = <<>>
    /\ stale' = MarkStale
    /\ sinceReset' = TRUE
    /\ used' = [used EXCEPT !.ops = @ + 1]
    /\ disturbed' = MarkDisturbed
    /\ UNCHANGED <<profile, frame, database, returned, control, alert_cooldown, locals, lastEval,
                   tickChanged, sensors, now, data_queue>>

set_alert_cooldown(seconds) ==
    /\ caller = "idle"
    /\ Budget
    /\ used' = [used EXCEPT !.ops = @ + 1]
    /\ alert_cooldown' = seconds
    /\ disturbed' = MarkDisturbed
    /\ UNCHANGED <<profile, frame, database, returned, session, control, last_alert_level, last_alert_time,
                   locals, stale, sinceReset, lastEval, tickChanged, sensors, now,
                   data_queue>>

\* get_current_status: the fields a collaborator reads.
get_current_status ==
    [bac              |-> current_bac,
     level            |-> get_bac_effects(current_bac),
     sober_time       |-> calculate_sober_time(current_bac),
     sensors          |-> sensors,
     drinks_count     |-> Len(drinks),
     time_since_last_drink |->
         IF last_drink_time # <<>> THEN now - last_drink_time[1] ELSE 0]

\* The call of get_current_status: the snapshot is returned, no field is
\* assigned.
get_current_status_call ==
    /\ caller = "idle"
    /\ Budget
    /\ used' = [used EXCEPT !.ops = @ + 1]
    /\ returned' = [op |-> "get_current_status", value |-> get_current_status]
    /\ UNCHANGED <<profile, frame, database, session, control, alertst, locals, ghosts,
                   sensors, now, data_queue>>

\* Variant of the filter of line 260 with >= for >: a sample taken exactly at
\* the cutoff is returned too.  C15 does not hold of it.
recent_data_inclusive(minutes) ==
    LET cutoff_time == now - 60 * minutes
        after_cutoff(point) == point.timestamp >= cutoff_time
    IN SelectSeq(bac_history, after_cutoff)

\* The list get_recent_data(minutes) builds: the samples of bac_history whose
\* timestamp is after the cutoff, in the order of bac_history.
recent_data(minutes) ==
    LET cutoff_time == now - 60 * minutes
        after_cutoff(point) == point.timestamp > cutoff_time
    IN SelectSeq(bac_history, after_cutoff)

\* Variant of get_recent_data that keeps only the samples it returns: the
\* history is pruned to the window.  C14 does not hold of it.
get_recent_data_prunes(minutes) ==
    /\ caller = "idle"
    /\ Budget
    /\ used' = [used EXCEPT !.ops = @ + 1]
    /\ returned' = [op |-> "get_recent_data", minutes |-> minutes,
                    value |-> recent_data(minutes)]
    /\ bac_history' = recent_data(minutes)
    /\ UNCHANGED <<profile, frame, database, drinks, first_drink_time, last_drink_time,
                   current_bac, sensor_history, control, alertst, locals, ghosts,
                   sensors, now, data_queue>>

get_recent_data(minutes) ==
    /\ caller = "idle"
    /\ Budget
    /\ used' = [used EXCEPT !.ops = @ + 1]
    /\ returned' = [op |-> "get_recent_data", minutes |-> minutes,
                    value |-> recent_data(minutes)]
    /\ UNCHANGED <<profile, frame, database, session, control, alertst, locals, ghosts,
                   sensors, now, data_queue>>

\* The caller lets time pass (time.sleep in the demos) while no background
\* loop is running.
time_passes(secs) ==
    /\ caller = "idle"
    /\ \A t \in Threads : pc[t] \in {"unborn", "dead"}
    /\ Budget
    /\ used' = [used EXCEPT !.ops = @ + 1]
    /\ now' = now + secs
    /\ UNCHANGED <<profile, frame, database, returned, session, control, alertst, locals,
                   ghosts, sensors, data_queue>>

\* ------------------------------------------------- the background thread
\* while self.is_monitoring: one more tick, or the thread ends.  The model
\* follows the loop while the clock is within MaxTime.
loop_check(t) ==
    /\ pc[t] = "loop"
    /\ is_monitoring => now <= MaxTime
    /\ pc' = [pc EXCEPT ![t] = IF is_monitoring THEN "update" ELSE "dead"]
    /\ tickChanged' = [tickChanged EXCEPT ![t] = FALSE]
    /\ disturbed' = [disturbed EXCEPT ![t] = FALSE]
    /\ UNCHANGED <<profile, frame, database, returned, session, control, alertst, pending, data_point, stale,
                   sinceReset, lastEval, sensors, now, data_queue, used>>

\* _update_bac up to the assignment to current_bac: the session state is read
\* and the new value computed, or calculate_bac_widmark raises.
update_bac_read(t) ==
    /\ pc[t] = "update"
    /\ IF UpdateRaises(drinks)
       THEN /\ pc' = [pc EXCEPT ![t] = "except"]
            /\ UNCHANGED <<pending, stale>>
       ELSE /\ pc' = [pc EXCEPT ![t] = "write"]
            /\ pending' = [pending EXCEPT ![t] =
                              UpdateValue(drinks, first_drink_time, last_drink_time, now)]
            /\ stale' = [stale EXCEPT ![t] = FALSE]
    /\ UNCHANGED <<profile, frame, database, returned, session, control, alertst, data_point, sinceReset,
                   lastEval, tickChanged, disturbed, sensors, now, data_queue, used>>

\* The assignment to current_bac of lines 145, 173 and 175.
update_bac_write(t) ==
    /\ pc[t] = "write"
    /\ current_bac' = pending[t]
    /\ pending' = [pending EXCEPT ![t] = 0]
    /\ tickChanged' = [tickChanged EXCEPT ![t] = (pending[t] # current_bac)]
    /\ pc' = [pc EXCEPT ![t] = "sensors"]
    /\ UNCHANGED <<profile, frame, database, returned, drinks, first_drink_time, last_drink_time, bac_history,
                   sensor_history, control, alertst, data_point, stale, sinceReset,
                   lastEval, disturbed, sensors, now, data_queue, used>>

\* Lines 37-46 of update_sensors: the readings for a BAC and the given random
\* draws, as they are assigned before the clamping.
sensor_assigned(bac_level, noise) ==
    [heart_rate       |-> baseline_heart_rate + (bac_level * 20) \div 10000 + noise[1],
     skin_conductance |-> baseline_skin_conductance + (bac_level * 3) \div 1000 + noise[2],
     temperature      |-> baseline_temperature + (bac_level * 2) \div 1000 + noise[3]]

\* Lines 48-50 of update_sensors: the readings clamped to their ranges.
sensor_clamped(s) ==
    [heart_rate       |-> Max(5000, Min(12000, s.heart_rate)),
     skin_conductance |-> Max(1000, s.skin_conductance),
     temperature      |-> Max(95000, Min(102000, s.temperature))]

\* SensorSimulator.update_sensors(bac_level) with the given random draws.
sensor_values(bac_level, noise) == sensor_clamped(sensor_assigned(bac_level, noise))

update_sensors(t, noise) ==
    /\ pc[t] = "sensors"
    /\ sensors' = sensor_values(current_bac, noise)
    /\ pc' = [pc EXCEPT ![t] = "record"]
    /\ UNCHANGED <<profile, frame, database, returned, session, control, alertst, pending, data_point, ghosts,
                   now, data_queue, used>>

\* The sensor source raises: control passes to the except clause of line 138.
\* A fault of the environment counts as one of the bounded operations.
update_sensors_raises(t) ==
    /\ pc[t] = "sensors"
    /\ Budget
    /\ used' = [used EXCEPT !.ops = @ + 1]
    /\ pc' = [pc EXCEPT ![t] = "except"]
    /\ UNCHANGED <<profile, frame, database, returned, session, control, alertst, pending, data_point, ghosts,
                   sensors, now, data_queue>>

\* Lines 116-127: the data point is built and appended to both histories.
record_data(t) ==
    LET point == [timestamp |-> now, bac |-> current_bac,
                  heart_rate |-> sensors.heart_rate,
                  skin_conductance |-> sensors.skin_conductance,
                  temperature |-> sensors.temperature]
    IN /\ pc[t] = "record"
       /\ data_point' = [data_point EXCEPT ![t] = <<point>>]
       /\ bac_history' = Append(bac_history, point)
       /\ sensor_history' = Append(sensor_history, point)
       /\ pc' = [pc EXCEPT ![t] = "alerts"]
       /\ UNCHANGED <<profile, frame, database, returned, drinks, first_drink_time, last_drink_time, current_bac,
                      control, alertst, pending, ghosts, sensors, now, data_queue, used>>

\* _check_alerts: the alert level of a BAC value.
current_alert_level(bac) ==
    IF bac >= CriticalThreshold THEN "critical"
    ELSE IF bac >= DangerThreshold THEN "danger"
    ELSE IF bac >= WarningThreshold THEN "warning"
    ELSE "None"

\* Variant of the rule of lines 194-203 that takes a cooldown of 0 for unset
\* and uses the default.  C18 does not hold of it.
should_alert_zero_is_default(level) ==
    \/ level # last_alert_level
    \/ /\ level # "None"
       /\ \/ last_alert_time = <<>>
          \/ now - last_alert_time[1] >
                 (IF alert_cooldown = 0 THEN DefaultCooldown ELSE alert_cooldown)

\* Variant of the rule of lines 194-203 without the test of line 196: a
\* change of level alone does not alert.  C16 does not hold of it.
should_alert_cooldown_only(level) ==
    /\ level # "None"
    /\ \/ last_alert_time = <<>>
       \/ now - last_alert_time[1] > alert_cooldown

\* Variant of the rule of lines 194-203 without the cooldown: every tick in
\* a level alerts.  C2 does not hold of it.
should_alert_no_cooldown(level) ==
    \/ level # last_alert_level
    \/ level # "None"

\* _check_alerts, lines 194-203.
should_alert(level) ==
    \/ level # last_alert_level
    \/ /\ level # "None"
       /\ \/ last_alert_time = <<>>
          \/ now - last_alert_time[1] > alert_cooldown

check_alerts(t) ==
    LET level == current_alert_level(current_bac)
        fire  == should_alert(level) /\ level # "None"
    IN /\ pc[t] = "alerts"
       /\ IF fire
          THEN /\ last_alert_level' = level
               /\ last_alert_time' = <<now>>
          ELSE UNCHANGED <<last_alert_level, last_alert_time>>
       /\ lastEval' = [prev |-> lastEval.cur, cur |-> level, fired |-> fire,
                        clean |-> ~disturbed[t], prevClean |-> lastEval.clean]
       /\ pc' = [pc EXCEPT ![t] = "put"]
       /\ UNCHANGED <<profile, frame, database, returned, session, control, alert_cooldown, pending, data_point,
                      stale, sinceReset, tickChanged, disturbed, sensors, now, data_queue,
                      used>>

\* check_alerts_manually: the status line for the current BAC is printed, no
\* field is assigned.
check_alerts_manually ==
    /\ caller = "idle"
    /\ Budget
    /\ used' = [used EXCEPT !.ops = @ + 1]
    /\ returned' = [op |-> "check_alerts_manually",
                    value |-> current_alert_level(current_bac)]
    /\ UNCHANGED <<profile, frame, database, session, control, alertst, locals, ghosts,
                   sensors, now, data_queue>>

\* Lines 133-136: the data point is put on the queue, then time.sleep(5).
queue_put_sleep(t) ==
    /\ pc[t] = "put"
    /\ data_queue' = data_queue + Len(data_point[t])
    /\ data_point' = [data_point EXCEPT ![t] = <<>>]
    /\ now' = now + TickSleepSecs
    /\ pc' = [pc EXCEPT ![t] = "loop"]
    /\ frame' = [frame EXCEPT ![t] = NoFrame]
    /\ UNCHANGED <<profile, database, returned, session, control, alertst, pending, ghosts, sensors, used>>

\* Variant of the loop without the except clause: the exception ends the
\* thread.  C7 does not hold of it.
except_exit(t) ==
    /\ pc[t] = "except"
    /\ pc' = [pc EXCEPT ![t] = "dead"]
    /\ UNCHANGED <<profile, frame, database, returned, session, control, alertst, pending, data_point, ghosts,
                   sensors, now, data_queue, used>>

\* The except clause of lines 138-140: the error is printed, then time.sleep(1).
except_sleep(t) ==
    /\ pc[t] = "except"
    /\ now' = now + ErrorSleepSecs
    /\ pc' = [pc EXCEPT ![t] = "loop"]
    /\ frame' = [frame EXCEPT ![t] = NoFrame]
    /\ UNCHANGED <<profile, database, returned, session, control, alertst, pending, data_point, ghosts,
                   sensors, data_queue, used>>

monitor_loop(t) ==
    \/ loop_check(t)
    \/ update_bac_read(t)
    \/ update_bac_write(t)
    \/ \E noise \in Noises : update_sensors(t, noise)
    \/ update_sensors_raises(t)
    \/ record_data(t)
    \/ check_alerts(t)
    \/ queue_put_sleep(t)
    \/ except_sleep(t)

\* ------------------------------------------- the operations by statement
\* The operations again, one step per statement that reads or writes a field
\* another thread writes or reads: the states in between are the ones a
\* concurrent thread can see.  caller names the statement the caller is at.

\* add_drink, lines 224-227: the drink is resolved and appended.
add_drink_append(drink_type, volume_oz, alcohol_percent) ==
    LET drink_info == calc_add_drink(drink_type, volume_oz, alcohol_percent)
                          @@ [timestamp |-> now]
    IN /\ caller = "idle"
       /\ Budget
       /\ Len(drinks) < MaxDrinks
       /\ used' = [used EXCEPT !.ops = @ + 1]
       /\ drinks' = Append(drinks, drink_info)
       /\ caller' = "add_first"
       /\ disturbed' = MarkDisturbed
       /\ database' = database_after_add(drink_type, volume_oz, alcohol_percent)
       /\ UNCHANGED <<profile, frame, returned, first_drink_time, last_drink_time,
                      current_bac, bac_history, sensor_history, is_monitoring,
                      monitor_thread, alertst, locals, stale, sinceReset, lastEval,
                      tickChanged, sensors, now, data_queue>>

\* add_drink, lines 229-230.
add_drink_first ==
    /\ caller = "add_first"
    /\ first_drink_time' = IF first_drink_time = <<>> THEN <<now>> ELSE first_drink_time
    /\ caller' = "add_last"
    /\ disturbed' = MarkDisturbed
    /\ UNCHANGED <<profile, frame, database, returned, drinks, last_drink_time,
                   current_bac, bac_history, sensor_history, is_monitoring,
                   monitor_thread, alertst, locals, stale, sinceReset, lastEval,
                   tickChanged, sensors, now, data_queue, used>>

\* Variant of line 232 that leaves last_drink_time as it was.  C30 does not
\* hold of it.
add_drink_last_skipped ==
    /\ caller = "add_last"
    /\ caller' = "add_update"
    /\ disturbed' = MarkDisturbed
    /\ UNCHANGED <<profile, frame, database, returned, drinks, first_drink_time,
                   last_drink_time,
                   current_bac, bac_history, sensor_history, is_monitoring,
                   monitor_thread, alertst, locals, stale, sinceReset, lastEval,
                   tickChanged, sensors, now, data_queue, used>>

\* add_drink, line 232.
add_drink_last ==
    /\ caller = "add_last"
    /\ last_drink_time' = <<now>>
    /\ caller' = "add_update"
    /\ disturbed' = MarkDisturbed
    /\ UNCHANGED <<profile, frame, database, returned, drinks, first_drink_time,
                   current_bac, bac_history, sensor_history, is_monitoring,
                   monitor_thread, alertst, locals, stale, sinceReset, lastEval,
                   tickChanged, sensors, now, data_queue, used>>

\* add_drink, line 235: the caller's own _update_bac.  The fields it reads
\* are written by the caller only, so it is one step.
add_drink_update ==
    /\ caller = "add_update"
    /\ current_bac' = IF UpdateRaises(drinks) THEN current_bac
                      ELSE UpdateValue(drinks, first_drink_time, last_drink_time, now)
    /\ caller' = "idle"
    /\ disturbed' = MarkDisturbed
    /\ UNCHANGED <<profile, frame, database, returned, drinks, first_drink_time,
                   last_drink_time, bac_history, sensor_history, is_monitoring,
                   monitor_thread, alertst, locals, stale, sinceReset, lastEval,
                   tickChanged, sensors, now, data_queue, used>>

\* reset_session, line 265.
reset_drinks ==
    /\ caller = "idle"
    /\ Budget
    /\ used' = [used EXCEPT !.ops = @ + 1]
    /\ drinks' = <<>>
    /\ caller' = "reset_first"
    /\ disturbed' = MarkDisturbed
    /\ UNCHANGED <<profile, frame, database, returned, first_drink_time,
                   last_drink_time, current_bac, bac_history, sensor_history,
                   is_monitoring, monitor_thread, alertst, locals, stale, sinceReset,
                   lastEval, tickChanged, sensors, now, data_queue>>

\* reset_session, line 266.
reset_first ==
    /\ caller = "reset_first"
    /\ first_drink_time' = <<>>
    /\ caller' = "reset_last"
    /\ disturbed' = MarkDisturbed
    /\ UNCHANGED <<profile, frame, database, returned, drinks, last_drink_time,
                   current_bac, bac_history, sensor_history, is_monitoring,
                   monitor_thread, alertst, locals, stale, sinceReset, lastEval,
                   tickChanged, sensors, now, data_queue, used>>

\* reset_session, line 267.
reset_last ==
    /\ caller = "reset_last"
    /\ last_drink_time' = <<>>
    /\ caller' = "reset_values"
    /\ disturbed' = MarkDisturbed
    /\ UNCHANGED <<profile, frame, database, returned, drinks, first_drink_time,
                   current_bac, bac_history, sensor_history, is_monitoring,
                   monitor_thread, alertst, locals, stale, sinceReset, lastEval,
                   tickChanged, sensors, now, data_queue, used>>

\* reset_session, lines 268-270.
reset_values ==
    /\ caller = "reset_values"
    /\ current_bac' = 0
    /\ bac_history' = <<>>
    /\ sensor_history' = <<>>
    /\ caller' = "reset_level"
    /\ disturbed' = MarkDisturbed
    /\ UNCHANGED <<profile, frame, database, returned, drinks, first_drink_time,
                   last_drink_time, is_monitoring, monitor_thread, alertst, locals,
                   stale, sinceReset, lastEval, tickChanged, sensors, now,
                   data_queue, used>>

\* reset_session, line 271.
reset_level ==
    /\ caller = "reset_level"
    /\ last_alert_level' = "None"
    /\ caller' = "reset_time"
    /\ disturbed' = MarkDisturbed
    /\ UNCHANGED <<profile, frame, database, returned, session, is_monitoring,
                   monitor_thread, last_alert_time, alert_cooldown, locals, stale,
                   sinceReset, lastEval, tickChanged, sensors, now, data_queue, used>>

\* reset_session, line 272.
reset_time ==
    /\ caller = "reset_time"
    /\ last_alert_time' = <<>>
    /\ caller' = "idle"
    /\ disturbed' = MarkDisturbed
    /\ UNCHANGED <<profile, frame, database, returned, session, is_monitoring,
                   monitor_thread, last_alert_level, alert_cooldown, locals, stale,
                   sinceReset, lastEval, tickChanged, sensors, now, data_queue, used>>

\* _update_bac, lines 144-146: the test of the drink log.
update_bac_check(t) ==
    /\ pc[t] = "update"
    /\ IF drinks = <<>>
       THEN /\ pending' = [pending EXCEPT ![t] = 0]
            /\ frame' = [frame EXCEPT ![t] = [NoFrame EXCEPT !.branch = "empty"]]
            /\ pc' = [pc EXCEPT ![t] = "write"]
       ELSE /\ frame' = [frame EXCEPT ![t] = NoFrame]
            /\ pc' = [pc EXCEPT ![t] = "first"]
            /\ UNCHANGED pending
    /\ UNCHANGED <<profile, database, returned, session, control, alertst,
                   data_point, ghosts, sensors, now, data_queue, used>>

\* _update_bac, line 150: the test of first_drink_time.
update_bac_first(t) ==
    /\ pc[t] = "first"
    /\ pc' = [pc EXCEPT ![t] = IF first_drink_time # <<>> THEN "hours" ELSE "widmark"]
    /\ UNCHANGED <<profile, frame, database, returned, session, control, alertst,
                   pending, data_point, ghosts, sensors, now, data_queue, used>>

\* _update_bac, line 151: first_drink_time is read again and subtracted from
\* the clock; the subtraction raises TypeError when it has become None.
update_bac_hours(t) ==
    /\ pc[t] = "hours"
    /\ IF first_drink_time = <<>>
       THEN /\ pc' = [pc EXCEPT ![t] = "except"]
            /\ UNCHANGED frame
       ELSE /\ frame' = [frame EXCEPT ![t].hours_since_first = now - first_drink_time[1]]
            /\ pc' = [pc EXCEPT ![t] = "widmark"]
    /\ UNCHANGED <<profile, database, returned, session, control, alertst,
                   pending, data_point, ghosts, sensors, now, data_queue, used>>

\* _update_bac, lines 154-156: calculate_bac_widmark on the drink log as it
\* is now.
update_bac_widmark(t) ==
    /\ pc[t] = "widmark"
    /\ IF WidmarkRaises(weight_lbs)
       THEN /\ pc' = [pc EXCEPT ![t] = "except"]
            /\ UNCHANGED frame
       ELSE /\ frame' = [frame EXCEPT ![t].calculated_bac =
                             calculate_bac_widmark(weight_lbs, gender, drinks,
                                                   frame[t].hours_since_first)]
            /\ pc' = [pc EXCEPT ![t] = "last"]
    /\ UNCHANGED <<profile, database, returned, session, control, alertst,
                   pending, data_point, ghosts, sensors, now, data_queue, used>>

\* _update_bac, line 159 and, without a last drink time, line 175.
update_bac_last(t) ==
    /\ pc[t] = "last"
    /\ IF last_drink_time # <<>>
       THEN /\ pc' = [pc EXCEPT ![t] = "estimate"]
            /\ UNCHANGED <<pending, frame>>
       ELSE /\ pending' = [pending EXCEPT ![t] = frame[t].calculated_bac]
            /\ frame' = [frame EXCEPT ![t].branch = "widmark"]
            /\ pc' = [pc EXCEPT ![t] = "write"]
    /\ UNCHANGED <<profile, database, returned, session, control, alertst,
                   data_point, ghosts, sensors, now, data_queue, used>>

\* _update_bac, lines 160-173: the sensor estimate and the weighted average.
\* estimate_bac_from_sensors raises TypeError at its line 83 when
\* last_drink_time has become None.
update_bac_estimate(t) ==
    /\ pc[t] = "estimate"
    /\ IF last_drink_time = <<>>
       THEN /\ pc' = [pc EXCEPT ![t] = "except"]
            /\ UNCHANGED <<pending, frame>>
       ELSE /\ pending' = [pending EXCEPT ![t] =
                  blend(frame[t].calculated_bac,
                        estimate_bac_from_sensors(sensors.heart_rate,
                            sensors.skin_conductance, sensors.temperature,
                            now - last_drink_time[1]))]
            /\ frame' = [frame EXCEPT ![t].branch = "blend"]
            /\ pc' = [pc EXCEPT ![t] = "write"]
    /\ UNCHANGED <<profile, database, returned, session, control, alertst,
                   data_point, ghosts, sensors, now, data_queue, used>>

\* update_sensors, lines 37-46: the readings are assigned unclamped.
update_sensors_assign(t, noise) ==
    /\ pc[t] = "sensors"
    /\ sensors' = sensor_assigned(current_bac, noise)
    /\ pc' = [pc EXCEPT ![t] = "clamp"]
    /\ UNCHANGED <<profile, frame, database, returned, session, control, alertst,
                   pending, data_point, ghosts, now, data_queue, used>>

\* update_sensors, lines 48-50: the readings are clamped.
update_sensors_clamp(t) ==
    /\ pc[t] = "clamp"
    /\ sensors' = sensor_clamped(sensors)
    /\ pc' = [pc EXCEPT ![t] = "record"]
    /\ UNCHANGED <<profile, frame, database, returned, session, control, alertst,
                   pending, data_point, ghosts, now, data_queue, used>>

\* _check_alerts, lines 179-205: the level and the decision.
check_alerts_decide(t) ==
    LET level == current_alert_level(current_bac)
        fire  == should_alert(level) /\ level # "None"
    IN /\ pc[t] = "alerts"
       /\ frame' = [frame EXCEPT ![t].current_alert_level = level,
                                   ![t].current_time = now]
       /\ pc' = [pc EXCEPT ![t] = IF fire THEN "alert_level" ELSE "put"]
       /\ UNCHANGED <<profile, database, returned, session, control, alertst,
                      pending, data_point, ghosts, sensors, now, data_queue, used>>

\* _check_alerts, line 214.
check_alerts_level(t) ==
    /\ pc[t] = "alert_level"
    /\ last_alert_level' = frame[t].current_alert_level
    /\ pc' = [pc EXCEPT ![t] = "alert_time"]
    /\ UNCHANGED <<profile, frame, database, returned, session, control,
                   last_alert_time, alert_cooldown, pending, data_point, ghosts,
                   sensors, now, data_queue, used>>

\* _check_alerts, line 215.
check_alerts_time(t) ==
    /\ pc[t] = "alert_time"
    /\ last_alert_time' = <<frame[t].current_time>>
    /\ pc' = [pc EXCEPT ![t] = "put"]
    /\ UNCHANGED <<profile, frame, database, returned, session, control,
                   last_alert_level, alert_cooldown, pending, data_point, ghosts,
                   sensors, now, data_queue, used>>

\* One statement of the background thread.
monitor_loop_statement(t) ==
    \/ loop_check(t)
    \/ update_bac_check(t)
    \/ update_bac_first(t)
    \/ update_bac_hours(t)
    \/ update_bac_widmark(t)
    \/ update_bac_last(t)
    \/ update_bac_estimate(t)
    \/ update_bac_write(t)
    \/ \E noise \in Noises : update_sensors_assign(t, noise)
    \/ update_sensors_clamp(t)
    \/ record_data(t)
    \/ check_alerts_decide(t)
    \/ check_alerts_level(t)
    \/ check_alerts_time(t)
    \/ queue_put_sleep(t)
    \/ except_sleep(t)

\* --------------------------------------------------------- specification
Next ==
    \/ start_monitoring
    \/ start_monitoring_again
    \/ stop_monitoring_begin
    \/ stop_monitoring_join
    \/ \E d \in DrinkInputs : add_drink(d[1], d[2], d[3])
    \/ \E secs \in ShiftInputs : time_shift(secs)
    \/ reset_session
    \/ \E s \in Cooldowns : set_alert_cooldown(s)
    \/ \E t \in Threads : monitor_loop(t)

Spec == Init /\ [][Next]_vars


\* The operating system schedules every thread: a background thread that can
\* take a step eventually takes one, and join() returns once it can.
FairSpec ==
    /\ Spec
    /\ \A t \in Threads : WF_vars(monitor_loop(t))
    /\ WF_vars(stop_monitoring_join)

\* The same operations for a session of an AlertProfiles profile.
AlertSpec == SessionInit(AlertProfiles) /\ [][Next]_vars

\* A call of BACCalculator.calculate_bac_widmark with the session's profile:
\* the value is returned, no field is written.
calculate_bac_widmark_call(ds, secs) ==
    /\ returned' = [op |-> "calculate_bac_widmark", drinks |-> ds, secs |-> secs,
                    value |-> calculate_bac_widmark(weight_lbs, gender, ds, secs)]
    /\ UNCHANGED <<profile, frame, database, session, control, alertst, locals,
                   ghosts, sensors, now, data_queue, used>>

\* A call of BACCalculator.get_bac_effects: the level is returned, no field is
\* written.
get_bac_effects_call(bac) ==
    /\ returned' = [op |-> "get_bac_effects", bac |-> bac,
                    value |-> get_bac_effects(bac)]
    /\ UNCHANGED <<profile, frame, database, session, control, alertst, locals,
                   ghosts, sensors, now, data_queue, used>>

\* The calculator's functions alone, over every input.
CalcNext ==
    \/ \E args \in CalcDrinkLists, secs \in ElapsedInputs :
           calculate_bac_widmark_call(
               [i \in 1..Len(args) |-> calc_add_drink(args[i][1], args[i][2], args[i][3])],
               secs)
    \/ \E bac \in BacInputs : get_bac_effects_call(bac)

CalcSpec == SessionInit(CalcProfiles) /\ [][CalcNext]_vars

\* The drink log under every kind of add_drink argument.
DrinkNext ==
    \/ \E d \in AllDrinkInputs : add_drink(d[1], d[2], d[3])
    \/ reset_session

DrinkSpec == Init /\ [][DrinkNext]_vars

\* The session by statement, for a StepProfiles profile: the caller adds
\* drinks, shifts the time, resets and reads the status while the loop runs.
StepNext ==
    \/ start_monitoring
    \/ \E d \in DrinkInputs : add_drink_append(d[1], d[2], d[3])
    \/ add_drink_first
    \/ add_drink_last
    \/ add_drink_update
    \/ time_shift(ShiftSecs)
    \/ reset_drinks
    \/ reset_first
    \/ reset_last
    \/ reset_values
    \/ reset_level
    \/ reset_time
    \/ get_current_status_call
    \/ \E t \in Threads : monitor_loop_statement(t)

StepSpec == SessionInit(StepProfiles) /\ [][StepNext]_vars

\* Every operation a collaborator can call, the read operations included,
\* and the background loop, for a session of an AlertProfiles profile.
AllNext ==
    \/ Next
    \/ get_current_status_call
    \/ \E minutes \in WindowInputs : get_recent_data(minutes)
    \/ check_alerts_manually

AllSpec == SessionInit(AlertProfiles) /\ [][AllNext]_vars

\* The session as its readers see it: the operations that fill the history,
\* the passing of time between calls, and the read operations.
ReadNext ==
    \/ start_monitoring
    \/ stop_monitoring_begin
    \/ stop_monitoring_join
    \/ \E d \in DrinkInputs : add_drink(d[1], d[2], d[3])
    \/ reset_session
    \/ \E secs \in WaitInputs : time_passes(secs)
    \/ get_current_status_call
    \/ \E minutes \in WindowInputs : get_recent_data(minutes)
    \/ \E t \in Threads : monitor_loop(t)

ReadSpec == Init /\ [][ReadNext]_vars

\* ------------------------------------------------------------------ claims
Severity(level) ==
    CASE level = "None" -> 0
      [] level = "warning" -> 1
      [] level = "danger" -> 2
      [] level = "critical" -> 3

Live(t) == pc[t] \notin {"unborn", "dead"}

\* C1: on a tick whose alert level is strictly more severe than the level
\* computed on the previous tick, an alert fires, whatever the cooldown.
\* Stated for the ticks most favourable to the claim: no caller operation ran
\* during this tick or the previous one.
C1_EscalationFires ==
    ( /\ lastEval.clean /\ lastEval.prevClean
      /\ Severity(lastEval.cur) > Severity(lastEval.prev) ) => lastEval.fired

\* C2: a tick whose level is not None, equals last_alert_level and comes at
\* most alert_cooldown seconds after last_alert_time sends no alert and leaves
\* last_alert_level and last_alert_time as they are.
C2_Suppressed ==
    [][\A t \in Threads :
          ( /\ check_alerts(t)
            /\ current_alert_level(current_bac) # "None"
            /\ current_alert_level(current_bac) = last_alert_level
            /\ last_alert_time # <<>>
            /\ now - last_alert_time[1] <= alert_cooldown )
          => ( /\ ~lastEval'.fired
               /\ UNCHANGED <<last_alert_level, last_alert_time>> )]_vars

\* A tick in a level that had fired before was evaluated and sent nothing.
C2_Witness ==
    /\ lastEval.cur # "None"
    /\ lastEval.cur = last_alert_level
    /\ ~lastEval.fired

\* C3: caller operations are serialized with the tick: after reset_session
\* and until the next add_drink, current_bac is 0 and no history sample carries
\* a BAC of the drink log that was reset; and no tick stores a value it
\* computed from the drink log as it was before a later add_drink or reset.
C3_Serialized ==
    /\ (sinceReset /\ caller = "idle") =>
           /\ current_bac = 0
           /\ \A i \in 1 .. Len(bac_history) : bac_history[i].bac = 0
    /\ \A t \in Threads : ~(stale[t] /\ tickChanged[t])

\* C4: stop_monitoring returns only after the background loop has ended, and
\* it always returns: while the caller is outside stop_monitoring and the flag
\* is clear no background thread is live, and a caller blocked in join()
\* eventually leaves it.
C4_StopJoins ==
    /\ []((caller = "idle" /\ ~is_monitoring) => \A t \in Threads : ~Live(t))
    /\ (caller = "joining") ~> (caller = "idle")

\* stop_monitoring has returned after a thread ran and put data on the queue.
C4_Witness ==
    /\ caller = "idle"
    /\ ~is_monitoring
    /\ used.starts > 0
    /\ data_queue > 0

\* C5: at most one background loop is live, whatever start and stop calls the
\* caller makes.
C5_OneLoop == Cardinality({t \in Threads : Live(t)}) <= 1

\* A second loop runs after the first one was stopped and has ended, and the
\* caller is free to call start_monitoring again while it runs.
C5_Witness ==
    /\ pc[1] = "dead"
    /\ Live(2)
    /\ caller = "idle"
    /\ is_monitoring

\* C6: a tick that fails leaves current_bac as it was when the tick began.
\* Stated for the ticks most favourable to the claim: no caller operation ran
\* during the tick, so only the tick itself can have changed current_bac.
C6_FailedTickKeepsBac ==
    \A t \in Threads :
        (pc[t] = "except" /\ ~disturbed[t]) => ~tickChanged[t]

\* C7: a failure inside a tick does not end the loop: a thread ends only when
\* is_monitoring is clear, and after a failed tick it begins another tick
\* unless the flag is cleared (or the model's clock has passed MaxTime).
C7_LoopSurvives ==
    /\ [][\A t \in Threads : (pc[t] # "dead" /\ pc'[t] = "dead") => ~is_monitoring]_vars
    /\ \A t \in Threads :
          (pc[t] = "except") ~> (pc[t] = "update" \/ ~is_monitoring \/ now > MaxTime)

\* The first thread has begun a tick after a failed one, with the flag still
\* set: only the sleep of the except clause brings the clock to 1.
C7_Witness ==
    /\ pc[1] = "update"
    /\ is_monitoring
    /\ used.starts = 1
    /\ now = ErrorSleepSecs

\* C8: a session whose profile has a non-positive weight or a sex other than
\* male or female is never used: it takes no drink and runs no recomputation.
C8_ProfileValidated ==
    (drinks # <<>> \/ \E t \in Threads : pc[t] # "unborn")
        => (weight_lbs > 0 /\ gender \in {"male", "female"})

\* C9: reset_session leaves an empty drink log, unset drink times, an empty
\* history, a zero BAC and an unset alert state, and get_current_status then
\* reports no drinks, BAC 0 and Sober.
C9_ResetClears ==
    [][reset_session =>
          /\ drinks' = <<>>
          /\ first_drink_time' = <<>> /\ last_drink_time' = <<>>
          /\ bac_history' = <<>> /\ sensor_history' = <<>>
          /\ current_bac' = 0
          /\ last_alert_level' = "None" /\ last_alert_time' = <<>>
          /\ get_current_status'.drinks_count = 0
          /\ get_current_status'.bac = 0
          /\ get_current_status'.level = "Sober"]_vars

\* The session was reset after an alert had fired.
C9_Witness == sinceReset /\ lastEval.fired /\ last_alert_level = "None"

\* C10: reset_session changes neither the profile nor the running flag nor
\* the background thread, which goes on from where it was.
C10_ResetFrame ==
    [][reset_session =>
          UNCHANGED <<weight_lbs, gender, is_monitoring, monitor_thread, pc, caller>>]_vars

\* After a reset of a running monitor the loop has recorded a new sample.
C10_Witness == sinceReset /\ is_monitoring /\ Len(bac_history) > 0

\* C11: every add_drink call appends exactly one drink at the end of the log,
\* sets last_drink_time to the call time, sets first_drink_time only if it was
\* unset, and has recomputed current_bac from the new log when it returns.
C11_AddDrinkRecomputes ==
    [][\A d \in DrinkInputs :
          add_drink(d[1], d[2], d[3]) =>
              /\ Len(drinks') = Len(drinks) + 1
              /\ SubSeq(drinks', 1, Len(drinks)) = drinks
              /\ drinks'[Len(drinks')] =
                     calc_add_drink(d[1], d[2], d[3]) @@ [timestamp |-> now]
              /\ last_drink_time' = <<now>>
              /\ first_drink_time' =
                     IF first_drink_time = <<>> THEN <<now>> ELSE first_drink_time
              /\ ~UpdateRaises(drinks')
              /\ current_bac' =
                     UpdateValue(drinks', first_drink_time', last_drink_time', now)]_vars

\* C12: no operation other than reset_session shortens the drink log or
\* changes an entry of it, and first_drink_time, once set, is changed only by a
\* time shift or by reset_session.
C12_LogAppendOnly ==
    /\ [][\/ reset_session
          \/ /\ Len(drinks') >= Len(drinks)
             /\ SubSeq(drinks', 1, Len(drinks)) = drinks]_vars
    /\ [][(first_drink_time # <<>> /\ first_drink_time' # first_drink_time)
            => (reset_session \/ \E secs \in ShiftInputs : time_shift(secs))]_vars

\* A second drink was added after a tick, and first_drink_time is still the
\* time of the first one.
C12_Witness ==
    /\ Len(drinks) = 2
    /\ drinks[2].timestamp > drinks[1].timestamp
    /\ first_drink_time = <<drinks[1].timestamp>>
    /\ bac_history # <<>>

\* C13: in every reachable state of a session the stored current BAC is
\* greater than or equal to 0.
C13_BacNonNegative == current_bac >= 0

\* A time shift has put first_drink_time after the clock, so that the elapsed
\* time is negative, and the recomputation has stored 0.
C13_Witness ==
    /\ drinks # <<>>
    /\ weight_lbs > 0
    /\ first_drink_time # <<>>
    /\ first_drink_time[1] > now
    /\ current_bac = 0

\* C14: get_current_status and get_recent_data are read-only: a call changes
\* neither the drink log, the drink times, current_bac, the histories, the
\* sensor readings, the alert state, the cooldown nor the running flag; and
\* what get_recent_data returns is what the same call would return again, the
\* retained history being as it was.
C14_ReadOnly ==
    /\ [][(get_current_status_call \/ \E minutes \in WindowInputs : get_recent_data(minutes))
            => UNCHANGED <<drinks, first_drink_time, last_drink_time, current_bac,
                           bac_history, sensor_history, sensors, last_alert_level,
                           last_alert_time, alert_cooldown, is_monitoring,
                           monitor_thread>>]_vars
    /\ [][\A minutes \in WindowInputs :
             get_recent_data(minutes) => returned'.value = recent_data(minutes)']_vars

\* get_recent_data has returned some but not all of the retained samples.
C14_Witness ==
    /\ returned # <<>>
    /\ returned.op = "get_recent_data"
    /\ Len(returned.value) > 0
    /\ Len(returned.value) < Len(bac_history)

\* C15: the history samples are in strictly increasing order of timestamp,
\* and get_recent_data(w) returns exactly the samples later than now minus w
\* minutes, in the order of the history: the result is the end of the history,
\* each of its samples is after the cutoff and no sample before it is.
C15_RecentDataChronological ==
    /\ [](\A i \in 1 .. Len(bac_history) - 1 :
             bac_history[i].timestamp < bac_history[i + 1].timestamp)
    /\ [][\A minutes \in WindowInputs :
             get_recent_data(minutes) =>
                 LET r == returned'.value
                     n == Len(bac_history)
                     cutoff == now - 60 * minutes
                 IN /\ Len(r) <= n
                    /\ r = SubSeq(bac_history, n - Len(r) + 1, n)
                    /\ \A k \in 1 .. Len(r) : r[k].timestamp > cutoff
                    /\ \A i \in 1 .. n - Len(r) : bac_history[i].timestamp <= cutoff]_vars

\* get_recent_data(30) has left out the newest sample, taken exactly 30
\* minutes before the call.
C15_Witness ==
    /\ returned # <<>>
    /\ returned.op = "get_recent_data"
    /\ returned.minutes = 30
    /\ returned.value = <<>>
    /\ bac_history # <<>>
    /\ bac_history[Len(bac_history)].timestamp = now - 1800

\* A drink log is present and current_bac is in the given alert level, which
\* is not the level of the last alert, while the monitor is running.
InNewLevel(level) ==
    /\ is_monitoring
    /\ drinks # <<>>
    /\ current_alert_level(current_bac) = level
    /\ level # last_alert_level

\* C16: while the monitor runs and ticks succeed, once add_drink has brought
\* current_bac into an alert level other than last_alert_level, an alert for
\* that level fires: the alert check of a tick during which no caller
\* operation ran fires it, and as long as current_bac stays in the level, the
\* flag stays set and no tick fails, the alert is eventually sent (up to the
\* clock horizon MaxTime).
C16_DrinkAlertFires ==
    /\ [][\A t \in Threads :
             ( /\ check_alerts(t)
               /\ ~disturbed[t]
               /\ drinks # <<>>
               /\ current_alert_level(current_bac) # "None"
               /\ current_alert_level(current_bac) # last_alert_level )
             => ( /\ lastEval'.fired
                  /\ last_alert_level' = current_alert_level(current_bac)
                  /\ last_alert_time' = <<now>> )]_vars
    /\ \A level \in {"warning", "danger", "critical"} :
          InNewLevel(level) ~>
              \/ last_alert_level = level
              \/ ~InNewLevel(level)
              \/ \E t \in Threads : pc[t] = "except"
              \/ now > MaxTime

\* After a warning, a second drink has raised current_bac to the danger level
\* and the next tick has sent the danger alert.
C16_Witness ==
    /\ Len(drinks) = 2
    /\ lastEval.fired
    /\ lastEval.clean
    /\ lastEval.prev = "warning"
    /\ lastEval.cur = "danger"
    /\ last_alert_level = "danger"

\* C17: on every alert check of a tick, if the level computed from current_bac
\* differs from last_alert_level as it was before the check, the level None
\* included, then after the check last_alert_level is the computed level and
\* last_alert_time is the time of the check.
C17_LevelChangeRecorded ==
    [][\A t \in Threads :
          ( /\ check_alerts(t)
            /\ current_alert_level(current_bac) # last_alert_level )
          => ( /\ last_alert_level' = current_alert_level(current_bac)
               /\ last_alert_time' = <<now>> )]_vars

\* C18: with the cooldown set to 0, every alert check of a tick on which the
\* level is not None sends an alert and sets last_alert_time to the time of the
\* check, also on consecutive ticks in the same level.
C18_ZeroCooldownAlwaysFires ==
    [][\A t \in Threads :
          ( /\ check_alerts(t)
            /\ alert_cooldown = 0
            /\ current_alert_level(current_bac) # "None" )
          => ( /\ lastEval'.fired
               /\ last_alert_level' = current_alert_level(current_bac)
               /\ last_alert_time' = <<now>> )]_vars

\* With cooldown 0 the second of two consecutive ticks in the warning level
\* has sent an alert again.
C18_Witness ==
    /\ alert_cooldown = 0
    /\ lastEval.prev = "warning"
    /\ lastEval.cur = "warning"
    /\ lastEval.fired
    /\ last_alert_time # <<>>
    /\ last_alert_time[1] >= TickSleepSecs

\* C19: add_drink resolves every drink type: a known type without an override
\* records the values the database was built with, a supplied positive volume
\* or percentage replaces the database value, an unknown type without
\* overrides records 5 % and 12 oz, and the database is left as it was built,
\* whatever drinks were resolved before.
C19_DrinkResolution ==
    [][\A d \in AllDrinkInputs :
          add_drink(d[1], d[2], d[3]) =>
              LET rec   == drinks'[Len(drinks')]
                  known == d[1] \in {"beer", "wine", "liquor", "cocktail"}
              IN /\ Len(drinks') = Len(drinks) + 1
                 /\ (known /\ d[2] = NoArg)
                       => rec.volume_oz = drink_database[d[1]].volume_oz
                 /\ (known /\ d[3] = NoArg)
                       => rec.alcohol_percent = drink_database[d[1]].alcohol_percent
                 /\ d[2] > 0 => rec.volume_oz = d[2]
                 /\ d[3] > 0 => rec.alcohol_percent = d[3]
                 /\ (~known /\ d[2] = NoArg /\ d[3] = NoArg)
                       => (rec.alcohol_percent = 5 /\ rec.volume_oz = 120)
                 /\ database' = drink_database]_vars

\* A liquor with a volume override was logged, and then a liquor without:
\* the second has the volume of the database.
C19_Witness ==
    /\ Len(drinks) = 2
    /\ drinks[1].alcohol_percent = 40
    /\ drinks[1].volume_oz = 20
    /\ drinks[2].alcohol_percent = 40
    /\ drinks[2].volume_oz = 15

\* C20: for every profile of positive weight, every drink list and every
\* elapsed time, calculate_bac_widmark returns a value that is not negative,
\* and for a negative elapsed time it returns 0.
C20_WidmarkNonNegative ==
    (returned # <<>> /\ returned.op = "calculate_bac_widmark") =>
        /\ returned.value >= 0
        /\ returned.secs < 0 => returned.value = 0

\* The estimator was called on a list with drinks for a negative elapsed time
\* and returned 0.
C20_Witness ==
    /\ returned # <<>>
    /\ returned.op = "calculate_bac_widmark"
    /\ returned.drinks # <<>>
    /\ returned.secs < 0
    /\ returned.value = 0

\* Two successive calls of calculate_bac_widmark on the same drink list, the
\* second for a later elapsed time.
LaterCall ==
    /\ returned # <<>>
    /\ returned.op = "calculate_bac_widmark"
    /\ returned'.op = "calculate_bac_widmark"
    /\ returned'.drinks = returned.drinks
    /\ returned.secs < returned'.secs

\* The value rises strictly over [0, 0.5 h]; past 0.5 h it falls strictly
\* while it is positive and stays 0 once it is 0.
Monotone ==
    /\ (0 <= returned.secs /\ returned'.secs <= PeakSecs)
          => returned.value < returned'.value
    /\ returned.secs > PeakSecs
          => /\ returned.value > 0 => returned'.value < returned.value
             /\ returned.value = 0 => returned'.value = 0

\* C21 as stated: for every drink list, the empty one included, the Widmark
\* value rises strictly with the elapsed time over [0, 0.5 h] and falls
\* strictly past 0.5 h until it is clamped at 0.
C21_MonotoneAllLists == [][LaterCall => Monotone]_vars

\* C21, amended: for every drink list that is not empty, the Widmark value
\* rises strictly with the elapsed time over [0, 0.5 h] and falls strictly
\* past 0.5 h until it is clamped at 0.
C21_MonotoneNonEmpty ==
    [][(LaterCall /\ returned.drinks # <<>>) => Monotone]_vars

\* The estimator returned a value strictly between 0 and the peak, half way
\* up the ramp of a list with drinks.
C21_Witness ==
    /\ returned # <<>>
    /\ returned.op = "calculate_bac_widmark"
    /\ returned.drinks # <<>>
    /\ returned.secs = 900
    /\ returned.value > 0
    /\ returned.value < peak_bac(weight_lbs, gender, returned.drinks)

\* A BAC in millionths rounded to three decimals, in thousandths.
Round3(bac) == (bac + 500) \div 1000

\* The call of test_realistic_bac, test 1: a 133 lb female, one drink of
\* 12 oz at 5 %, half an hour after it.
Scenario1 ==
    /\ returned # <<>>
    /\ returned.op = "calculate_bac_widmark"
    /\ weight_lbs = 1330
    /\ gender = "female"
    /\ returned.drinks = <<[alcohol_percent |-> 5, volume_oz |-> 120]>>
    /\ returned.secs = PeakSecs

C23_EmptyLogIsSober ==
    [][/\ \A t \in Threads :
             /\ (update_bac_read(t) /\ drinks = <<>>)
                   => (pc'[t] = "write" /\ pending'[t] = 0)
             /\ (update_bac_write(t) /\ drinks = <<>> /\ ~stale[t])
                   => (current_bac' = 0 /\ get_bac_effects(current_bac') = "Sober")
       /\ reset_session
             => (current_bac' = 0 /\ get_bac_effects(current_bac') = "Sober")]_vars

\* After a reset, at a later time and with sensor readings off the baseline,
\* a tick has recomputed on the empty log and has replaced a value that was
\* not 0 by 0.
C23_Witness ==
    \E t \in Threads :
        /\ pc[t] = "sensors"
        /\ drinks = <<>>
        /\ sinceReset
        /\ ~stale[t]
        /\ tickChanged[t]
        /\ current_bac = 0
        /\ now > 0
        /\ sensors.skin_conductance # baseline_skin_conductance

\* C24: get_bac_effects maps every BAC to a level by half-open ranges: below
\* 0.02 Sober, from 0.02 below 0.05 Mild Impairment, from 0.05 below 0.08
\* Moderate Impairment, from 0.08 below 0.15 High Impairment, from 0.15 on
\* Severe Impairment; 0.019999, 0.02, 0.079999 and 0.08 give Sober, Mild,
\* Moderate and High.
C24_ClassifierRanges ==
    (returned # <<>> /\ returned.op = "get_bac_effects") =>
        LET bac   == returned.bac
            level == returned.value
        IN /\ bac < 20000 <=> level = "Sober"
           /\ (20000 <= bac /\ bac < 50000) <=> level = "Mild Impairment"
           /\ (50000 <= bac /\ bac < 80000) <=> level = "Moderate Impairment"
           /\ (80000 <= bac /\ bac < 150000) <=> level = "High Impairment"
           /\ bac >= 150000 <=> level = "Severe Impairment"
           /\ bac = 19999 => level = "Sober"
           /\ bac = 20000 => level = "Mild Impairment"
           /\ bac = 79999 => level = "Moderate Impairment"
           /\ bac = 80000 => level = "High Impairment"

\* The classifier was called on the boundary 0.08 and returned High
\* Impairment.
C24_Witness ==
    /\ returned # <<>>
    /\ returned.op = "get_bac_effects"
    /\ returned.bac = 80000
    /\ returned.value = "High Impairment"

\* The two phases as the specification words them, in millionths and
\* seconds: peak * (h / 0.5) up to 0.5 h, peak - 0.015 * (h - 0.5) after.
TwoPhase(peak, secs) ==
    IF secs <= 1800
    THEN (peak * secs) \div 1800
    ELSE peak - (15000 * (secs - 1800)) \div 3600

NotRunning == \A t \in Threads : pc[t] \in {"unborn", "dead"}

\* C28: last_alert_level and last_alert_time are changed only by the alert
\* decision of a background tick and by reset_session: add_drink, the time
\* shift, get_current_status, get_recent_data, check_alerts_manually and
\* set_alert_cooldown leave both as they are, so while no loop is running
\* only a reset changes them, however high the BAC is.
C28_AlertStateFrame ==
    [][/\ (last_alert_level' # last_alert_level \/ last_alert_time' # last_alert_time)
            => (reset_session \/ \E t \in Threads : check_alerts(t))
       /\ ( \/ \E d \in DrinkInputs : add_drink(d[1], d[2], d[3])
            \/ \E secs \in ShiftInputs : time_shift(secs)
            \/ get_current_status_call
            \/ \E minutes \in WindowInputs : get_recent_data(minutes)
            \/ check_alerts_manually
            \/ \E s \in Cooldowns : set_alert_cooldown(s) )
            => UNCHANGED <<last_alert_level, last_alert_time>>
       /\ (NotRunning /\ ~reset_session)
            => UNCHANGED <<last_alert_level, last_alert_time>>]_vars

\* No loop is running, the BAC is in an alert level, check_alerts_manually
\* has printed that level, and no alert is recorded.
C28_Witness ==
    /\ NotRunning
    /\ current_bac >= WarningThreshold
    /\ returned # <<>>
    /\ returned.op = "check_alerts_manually"
    /\ returned.value # "None"
    /\ last_alert_level = "None"
    /\ last_alert_time = <<>>

\* The sensor estimate _update_bac would compute now.
SensorBacNow ==
    estimate_bac_from_sensors(sensors.heart_rate, sensors.skin_conductance,
                              sensors.temperature, now - last_drink_time[1])

\* C26: a recomputation on a drink log that is not empty stores
\* 0.7 * widmark + 0.3 * sensor estimate when it finds a last drink time, and
\* the Widmark value itself when it finds none: in the background tick, which
\* stores what it computed, and in the recomputations of add_drink and of the
\* time shift.
C26_BlendedOrWidmark ==
    [][/\ \A t \in Threads :
             /\ (update_bac_estimate(t) /\ last_drink_time # <<>>)
                   => pending'[t] = (7 * frame[t].calculated_bac + 3 * SensorBacNow) \div 10
             /\ (update_bac_last(t) /\ last_drink_time = <<>>)
                   => pending'[t] = frame[t].calculated_bac
             /\ (update_bac_write(t) /\ frame[t].branch # "empty")
                   => current_bac' = pending[t]
       /\ (add_drink_update /\ ~UpdateRaises(drinks))
             => current_bac' =
                  (7 * calculate_bac_widmark(weight_lbs, gender, drinks,
                                             now - first_drink_time[1])
                   + 3 * SensorBacNow) \div 10]_vars

\* A tick found drinks in the log and no last drink time, and has stored the
\* Widmark value, which is not 0.
C26_Witness ==
    \E t \in Threads :
        /\ pc[t] = "sensors"
        /\ frame[t].branch = "widmark"
        /\ frame[t].calculated_bac > 0
        /\ current_bac = frame[t].calculated_bac

\* The ranges update_sensors clamps to: heart rate 50-120, skin conductance
\* at least 1.0, temperature 95-102.
InSensorRanges(s) ==
    /\ s.heart_rate >= 5000 /\ s.heart_rate <= 12000
    /\ s.skin_conductance >= 1000
    /\ s.temperature >= 95000 /\ s.temperature <= 102000

\* C27: every sensor triple a collaborator can observe, returned by
\* get_current_status or recorded in a history sample, has its heart rate in
\* [50, 120], its skin conductance at least 1.0 and its temperature in
\* [95, 102], also when get_current_status runs while a tick updates the sensors.
C27_SensorRanges ==
    /\ (returned # <<>> /\ returned.op = "get_current_status")
          => InSensorRanges(returned.value.sensors)
    /\ \A i \in 1..Len(bac_history) : InSensorRanges(bac_history[i])
    /\ \A i \in 1..Len(sensor_history) : InSensorRanges(sensor_history[i])

\* C29: the last alert level is set if and only if the last alert time is
\* set: both are unset initially and after reset_session, and a fired alert
\* sets both.  Stated of the states in which neither reset_session nor the
\* pair of assignments of lines 214-215 is half done.
C29_LevelIffTime ==
    (caller = "idle" /\ \A t \in Threads : pc[t] # "alert_time")
        => ((last_alert_level # "None") <=> (last_alert_time # <<>>))

\* When no caller operation is half done the drink log is non-empty if and
\* only if first_drink_time is set, and if and only if last_drink_time is set.
LogAndTimesAgree ==
    caller = "idle" =>
        /\ (drinks # <<>>) <=> (first_drink_time # <<>>)
        /\ (drinks # <<>>) <=> (last_drink_time # <<>>)

\* A recomputation that finds the log non-empty with no
\* add_drink or reset_session half done takes the blended branch of line 173
\* and never the Widmark-only branch of line 175, in the background tick and at
\* the end of add_drink.
BlendedBranch ==
    [][/\ \A t \in Threads :
             /\ (update_bac_last(t) /\ caller = "idle" /\ drinks # <<>>)
                   => pc'[t] = "estimate"
             /\ (update_bac_estimate(t) /\ caller = "idle" /\ drinks # <<>>)
                   => (pc'[t] = "write" /\ frame'[t].branch = "blend")
       /\ add_drink_update => (drinks # <<>> /\ last_drink_time # <<>>)]_vars

\* C30: in every state with no caller operation half done the drink log is
\* non-empty exactly when first_drink_time is set and exactly when
\* last_drink_time is set, and so every recomputation on a non-empty log that
\* no add_drink or reset_session interleaves with takes the blended branch.
C30_ConsistentLog == []LogAndTimesAgree /\ BlendedBranch

\* An undisturbed tick has computed the blend for a log with a drink in it,
\* with no caller operation in progress.
C30_Witness ==
    \E t \in Threads :
        /\ caller = "idle"
        /\ drinks # <<>>
        /\ pc[t] = "write"
        /\ ~disturbed[t]
        /\ frame[t].branch = "blend"
        /\ pending[t] > 0

====
